---- MODULE Spec2Model ----
(***************************************************************************)
(* Model of hand_probability.py: DeckInfo, CardRequirement and the         *)
(* HandProbability engine (create_probability_func, the closure            *)
(* probability_func it returns, and the three convenience builders),       *)
(* together with the caller list_of_probabilities of                       *)
(* probability_data_generator.py.                                          *)
(*                                                                         *)
(* Numbers.  Python integers are exact, so sums, products and binomials    *)
(* are ordinary integers here.  The quotient int / int is the double       *)
(* nearest to the exact rational; it is represented by that rational in    *)
(* lowest terms, <<num, den>> (for the small denominators of the model     *)
(* distinct rationals give distinct doubles, and 0 and 1 are exact).       *)
(* round(x, d) works on the double: the one place where the double's       *)
(* error is visible is a decimal tie, and there the direction of the       *)
(* error is computed (FloatAbove).                                         *)
(***************************************************************************)
EXTENDS Integers, Sequences, FiniteSets

\* ---------------------------------------------------------------- bounds
\* Largest deck_size of a DeckInfo.
MaxDeck == 4
\* Largest out_of / at_least given to CardRequirement, and largest
\* cards_of_rank_count / cards_of_suit_count of a DeckInfo: half the largest
\* deck, so that two whole categories fit in it.
MaxCategory == MaxDeck \div 2
\* Largest number of requirements (or 'at least' integers, or unique cards)
\* given to one builder call.
MaxReqs == 2
\* Largest digits_of_precision of an engine (besides None).
MaxDigits == 1

\* Significant bits of a Python float (IEEE-754 double), the type of int / int.
MantissaBits == 53

VARIABLES deck_info, digits_of_precision, objects, func, last

vars == <<deck_info, digits_of_precision, objects, func, last>>

\* ------------------------------------------------------------ arithmetic
Min(a, b) == IF a < b THEN a ELSE b

RECURSIVE Gcd(_, _)
Gcd(a, b) == IF b = 0 THEN a ELSE Gcd(b, a % b)

RECURSIVE Pow(_, _)
Pow(b, e) == IF e = 0 THEN 1 ELSE b * Pow(b, e - 1)

RECURSIVE IsPowerOfTwo(_)
IsPowerOfTwo(n) == IF n = 1 THEN TRUE
                   ELSE IF n % 2 = 1 THEN FALSE ELSE IsPowerOfTwo(n \div 2)

RECURSIVE BitLength(_)
BitLength(n) == IF n = 0 THEN 0 ELSE 1 + BitLength(n \div 2)

\* math.comb(n, k) for 0 <= k <= n.
RECURSIVE comb(_, _)
comb(n, k) == IF k = 0 THEN 1 ELSE (comb(n - 1, k - 1) * n) \div k

\* The double a / b of two ints (a >= 0, b > 0), as the rational it rounds.
TrueDiv(a, b) == LET g == Gcd(a, b) IN <<a \div g, b \div g>>

\* Binary long division of r / q, r < q, after `sig` significant bits have
\* been produced: TRUE iff the double nearest to the quotient lies above it
\* (the bits after the MantissaBits-th are more than half a unit).
RECURSIVE RoundsUp(_, _, _)
RoundsUp(r, q, sig) ==
    IF sig = MantissaBits THEN 2 * r > q
    ELSE LET bit == IF 2 * r >= q THEN 1 ELSE 0
         IN  RoundsUp(2 * r - bit * q, q,
                      IF sig > 0 \/ bit = 1 THEN sig + 1 ELSE 0)

\* For p / q not exactly representable: is the double p / q above p / q ?
FloatAbove(p, q) == RoundsUp(p % q, q, BitLength(p \div q))

\* round(x, digits) of the double x = p / q, digits >= 0: the double is
\* rounded half-even on its exact binary value.  Off a decimal tie that is
\* the rounding of p / q; on a tie an exact double (q a power of two) goes
\* to the even neighbour and an inexact one to the side its error lies on.
Round(x, digits) ==
    LET p     == x[1]
        q     == x[2]
        scale == Pow(10, digits)
        fl    == (p * scale) \div q
        rem   == (p * scale) % q
        k     == IF 2 * rem < q THEN fl
                 ELSE IF 2 * rem > q THEN fl + 1
                 ELSE IF IsPowerOfTwo(q)
                      THEN (IF fl % 2 = 0 THEN fl ELSE fl + 1)
                      ELSE (IF FloatAbove(p, q) THEN fl + 1 ELSE fl)
    IN  TrueDiv(k, scale)

RECURSIVE Sum(_)
Sum(s) == IF s = <<>> THEN 0 ELSE Head(s) + Sum(Tail(s))

\* -------------------------------------------------------- CardRequirement
\* CardRequirement.__init__: the object, or the ValueError it raises.
CardRequirementInitLax(at_least, out_of) ==
    IF at_least < 0 \/ out_of < 0
    THEN [raised |-> "ValueError", at_least |-> 0, out_of |-> 0]
    ELSE [raised |-> "no", at_least |-> at_least, out_of |-> out_of]

CardRequirementInit(at_least, out_of) ==
    IF at_least < 0 \/ out_of < 0
    THEN [raised |-> "ValueError", at_least |-> 0, out_of |-> 0]
    ELSE IF at_least > out_of
    THEN [raised |-> "ValueError", at_least |-> 0, out_of |-> 0]
    ELSE [raised |-> "no", at_least |-> at_least, out_of |-> out_of]

\* The objects a caller's argument list constructs, left to right.
Construct(args) == [i \in 1..Len(args) |-> CardRequirementInit(args[i][1], args[i][2])]

AnyRaised(made) == \E i \in 1..Len(made) : made[i].raised # "no"

AsObjects(made) ==
    [i \in 1..Len(made) |-> [at_least |-> made[i].at_least, out_of |-> made[i].out_of]]

\* ------------------------------------------------------- HandProbability
\* digits_of_precision: int | None.  None is the empty tuple, an int d is <<d>>.
None == <<>>

\* HandProbability._k_from_n_combinations
KFromNStrict(n, k) == IF k < 0 \/ k >= n THEN 0 ELSE comb(n, k)

KFromNCombinations(n, k) == IF k < 0 \/ k > n THEN 0 ELSE comb(n, k)

\* range(card_requirement.at_least, card_requirement.out_of + 1)
RangeExactly(req) == [start |-> req.at_least, stop |-> req.at_least + 1]

RangeExclusive(req) == [start |-> req.at_least, stop |-> req.out_of]

RangeOf(req) == [start |-> req.at_least, stop |-> req.out_of + 1]

\* total_cards_checked after the loop over the requirements
TotalNotAccumulated(reqs) == 0

TotalCardsChecked(reqs) == Sum([i \in 1..Len(reqs) |-> reqs[i].out_of])

\* The closure create_probability_func returns.  card_requirements holds
\* references (indices into the heap `objs`) to the caller's objects; ranges
\* and total_cards_checked are values computed when the function is built.
\* built_by and given record the builder that was called and the integers it
\* was given (nothing the code stores: they name the call in the properties).
Closure(built_by, given, refs, objs) ==
    [built_by            |-> built_by,
     given               |-> given,
     card_requirements   |-> refs,
     ranges              |-> [i \in 1..Len(refs) |-> RangeOf(objs[refs[i]])],
     total_cards_checked |-> TotalCardsChecked([i \in 1..Len(refs) |-> objs[refs[i]]])]

NoFunc == [built_by |-> "none", given |-> <<>>, card_requirements |-> <<>>, ranges |-> <<>>,
           total_cards_checked |-> 0]

\* The elements of a range object, in order.
RECURSIVE RangeElems(_, _)
RangeElems(start, stop) ==
    IF start >= stop THEN <<>> ELSE <<start>> \o RangeElems(start + 1, stop)

\* Every tuple t with <<c>> \o t, t from `tuples`, for the elements c of cs.
RECURSIVE Prepend(_, _)
Prepend(cs, tuples) ==
    IF cs = <<>> THEN <<>>
    ELSE [i \in 1..Len(tuples) |-> <<Head(cs)>> \o tuples[i]] \o Prepend(Tail(cs), tuples)

\* itertools.product(*ranges): the tuples in the order product yields them.
RECURSIVE ProductFrom(_)
ProductFrom(ranges) ==
    IF ranges = <<>> THEN << <<>> >>
    ELSE Prepend(RangeElems(Head(ranges).start, Head(ranges).stop),
                 ProductFrom(Tail(ranges)))

ProductNoneForEmpty(ranges) == IF ranges = <<>> THEN <<>> ELSE ProductFrom(ranges)

Product(ranges) == ProductFrom(ranges)

\* selected_cards_count - sum(card_counts)
RemainderNotReduced(selected_cards_count, card_counts) == selected_cards_count

Remainder(selected_cards_count, card_counts) == selected_cards_count - Sum(card_counts)

\* prod(k(requirement.out_of, count) for requirement, count in zip(...), start=...)
RECURSIVE ProdFrom(_, _, _, _, _)
ProdFrom(i, f, objs, card_counts, acc) ==
    IF i > Min(Len(f.card_requirements), Len(card_counts)) THEN acc
    ELSE ProdFrom(i + 1, f, objs, card_counts,
                  acc * KFromNCombinations(objs[f.card_requirements[i]].out_of,
                                           card_counts[i]))

Term(f, objs, deck, selected_cards_count, card_counts) ==
    ProdFrom(1, f, objs, card_counts,
             KFromNCombinations(deck.deck_size - f.total_cards_checked,
                                Remainder(selected_cards_count, card_counts)))

\* sum(... for card_counts in product(*ranges))
Numerator(f, objs, deck, selected_cards_count) ==
    LET tuples == Product(f.ranges)
    IN  Sum([j \in 1..Len(tuples) |-> Term(f, objs, deck, selected_cards_count, tuples[j])])

\* A call of probability_func: what it raises, or the value it returns.
Raise(error) == [raised |-> error, value |-> <<0, 1>>]

ProbabilityFuncUnchecked(f, objs, deck, digits, selected_cards_count) ==
    LET denominator == KFromNCombinations(deck.deck_size, selected_cards_count)
        probability == TrueDiv(Numerator(f, objs, deck, selected_cards_count),
                               denominator)
    IN  IF selected_cards_count < 0 THEN Raise("ValueError")
        ELSE IF denominator = 0 THEN Raise("ZeroDivisionError")
        ELSE [raised |-> "no",
              value  |-> IF digits = None THEN probability
                         ELSE Round(probability, digits[1])]

ProbabilityFunc(f, objs, deck, digits, selected_cards_count) ==
    LET denominator == KFromNCombinations(deck.deck_size, selected_cards_count)
        probability == TrueDiv(Numerator(f, objs, deck, selected_cards_count),
                               denominator)
    IN  IF selected_cards_count < 0 THEN Raise("ValueError")
        ELSE IF selected_cards_count > deck.deck_size THEN Raise("ValueError")
        ELSE IF denominator = 0 THEN Raise("ZeroDivisionError")
        ELSE [raised |-> "no",
              value  |-> IF digits = None THEN probability
                         ELSE Round(probability, digits[1])]

\* The argument lists the builders hand to create_probability_func.
RanksArgsBySuit(deck, at_least_of_ranks) ==
    [i \in 1..Len(at_least_of_ranks) |-> <<at_least_of_ranks[i], deck.cards_of_suit_count>>]

RanksArgs(deck, at_least_of_ranks) ==
    [i \in 1..Len(at_least_of_ranks) |-> <<at_least_of_ranks[i], deck.cards_of_rank_count>>]

SuitsArgs(deck, at_least_of_suits) ==
    [i \in 1..Len(at_least_of_suits) |-> <<at_least_of_suits[i], deck.cards_of_suit_count>>]

\* repeat(CardRequirement(1, 1), unique_card_count): one object, referenced
\* unique_card_count times (no times when the count is not positive).
UniqueRefs(unique_card_count) ==
    [i \in 1..(IF unique_card_count > 0 THEN unique_card_count ELSE 0) |-> 1]

\* ------------------------------------------------------------ the inputs
\* The decks: a positive deck_size, and categories of at least one card and
\* at most the whole deck.
DeckInfos == {deck \in [deck_size : 1..MaxDeck,
                        cards_of_rank_count : 1..MaxCategory,
                        cards_of_suit_count : 1..MaxCategory] :
                 /\ deck.cards_of_rank_count <= deck.deck_size
                 /\ deck.cards_of_suit_count <= deck.deck_size}

Precisions == {None} \cup {<<d>> : d \in 0..MaxDigits}

SeqsUpTo(S, n) == UNION {[1..k -> S] : k \in 0..n}

\* (at_least, out_of) as a caller may write them, malformed ones included.
RequirementArgs == (-1..MaxCategory) \X (-1..MaxCategory)

AtLeastArgs == -1..(MaxCategory + 1)

\* The draw sizes a function is called with: the valid ones of the deck and
\* the two just outside them.
DrawSizes(deck) == -1..(deck.deck_size + 1)

\* What the claims call a malformed requirement.
Malformed(arg) == arg[1] < 0 \/ arg[2] < 0 \/ arg[1] > arg[2]

AnyMalformed(args) == \E i \in 1..Len(args) : Malformed(args[i])

\* ----------------------------------------------------------------- state
\* last: the most recent call and how it ended.
\* last: the most recent call and how it ended: op is the kind of call, by
\* the builder (of the call, or of the function called), raised the
\* exception or "no", value the floats returned.  malformed records whether
\* a builder call was given a malformed requirement.
NoCall == [op |-> "none", by |-> "none", raised |-> "no", malformed |-> FALSE,
           selected_cards_count |-> 0, value |-> <<>>]

Built(built_by, raised, malformed) ==
    [op |-> "build", by |-> built_by, raised |-> raised, malformed |-> malformed,
     selected_cards_count |-> 0, value |-> <<>>]

Init ==
    /\ deck_info \in DeckInfos
    /\ digits_of_precision \in Precisions
    /\ objects = <<>>
    /\ func = NoFunc
    /\ last = NoCall

\* A builder call whose arguments construct `made`: the ValueError of a
\* constructor propagates and nothing is returned; otherwise the closure
\* over the new objects is.
Build(built_by, given, made, refs, malformed) ==
    /\ IF AnyRaised(made)
       THEN /\ objects' = <<>>
            /\ func' = NoFunc
            /\ last' = Built(built_by, "ValueError", malformed)
       ELSE /\ objects' = AsObjects(made)
            /\ func' = Closure(built_by, given, refs, AsObjects(made))
            /\ last' = Built(built_by, "no", malformed)
    /\ UNCHANGED <<deck_info, digits_of_precision>>

\* hand_probability.create_probability_func(CardRequirement(a1, o1), ...)
CreateProbabilityFunc(args) ==
    Build("create", <<>>, Construct(args), [i \in 1..Len(args) |-> i],
          AnyMalformed(args))

\* hand_probability.at_least_of_ranks_probability_function(k1, ...)
AtLeastOfRanksProbabilityFunction(at_least_of_ranks) ==
    LET args == RanksArgs(deck_info, at_least_of_ranks)
    IN  Build("ranks", at_least_of_ranks, Construct(args),
              [i \in 1..Len(args) |-> i], AnyMalformed(args))

\* hand_probability.at_least_of_suits_probability_function(k1, ...)
AtLeastOfSuitsProbabilityFunction(at_least_of_suits) ==
    LET args == SuitsArgs(deck_info, at_least_of_suits)
    IN  Build("suits", at_least_of_suits, Construct(args),
              [i \in 1..Len(args) |-> i], AnyMalformed(args))

\* hand_probability.unique_cards_probability_function(n)
UniqueCardsProbabilityFunction(unique_card_count) ==
    Build("unique", <<unique_card_count>>, <<CardRequirementInit(1, 1)>>,
          UniqueRefs(unique_card_count), FALSE)

\* func(selected_cards_count)
Call(selected_cards_count) ==
    /\ func # NoFunc
    /\ LET r == ProbabilityFunc(func, objects, deck_info, digits_of_precision,
                                selected_cards_count)
       IN  last' = [op |-> "call", by |-> func.built_by, raised |-> r.raised,
                    malformed |-> FALSE,
                    selected_cards_count |-> selected_cards_count,
                    value |-> IF r.raised = "no" THEN <<r.value>> ELSE <<>>]
    /\ UNCHANGED <<deck_info, digits_of_precision, objects, func>>

\* list_of_probabilities(selected_cards, func) for the draw sizes
\* first .. deck_size - first: np.arange(1, deck_size) as main() passes it
\* (first = 1), and the whole domain 0 .. deck_size (first = 0).
ListOfProbabilities(first) ==
    /\ func # NoFunc
    /\ first <= deck_info.deck_size - first
    /\ LET n == deck_info.deck_size - 2 * first + 1
           r == [i \in 1..n |-> ProbabilityFunc(func, objects, deck_info,
                                                digits_of_precision, first + i - 1)]
       IN  last' = [op |-> "list", by |-> func.built_by, raised |-> "no",
                    malformed |-> FALSE,
                    selected_cards_count |-> first,
                    value |-> [i \in 1..n |-> r[i].value]]
    /\ UNCHANGED <<deck_info, digits_of_precision, objects, func>>

\* main() builds each function once, on the engine it has constructed, and
\* hands it once to the code that evaluates it.  A build reads deck_info
\* alone and an evaluation changes nothing a later one reads, so a behaviour
\* is one builder call followed by one evaluation of what it returned.
NewEngine == last = NoCall

JustBuilt == last.op = "build"

Next ==
    \/ NewEngine /\ \E args \in SeqsUpTo(RequirementArgs, MaxReqs) :
                        CreateProbabilityFunc(args)
    \/ NewEngine /\ \E ks \in SeqsUpTo(AtLeastArgs, MaxReqs) :
                        AtLeastOfRanksProbabilityFunction(ks)
    \/ NewEngine /\ \E ks \in SeqsUpTo(AtLeastArgs, MaxReqs) :
                        AtLeastOfSuitsProbabilityFunction(ks)
    \/ NewEngine /\ \E n \in 0..MaxReqs : UniqueCardsProbabilityFunction(n)
    \/ JustBuilt /\ \E m \in DrawSizes(deck_info) : Call(m)
    \/ JustBuilt /\ \E first \in 0..1 : ListOfProbabilities(first)

Spec == Init /\ [][Next]_vars

\* ------------------------------------------- changes made by the caller
\* DeckInfo, CardRequirement and HandProbability are plain objects: a caller
\* that holds one can assign to its attributes after a function was built.
\* hand_probability.digits_of_precision = d
SetDigitsOfPrecision(d) ==
    /\ d # digits_of_precision
    /\ digits_of_precision' = d
    /\ UNCHANGED <<deck_info, objects, func, last>>

\* deck_info.deck_size = n
SetDeckSize(n) ==
    /\ n # deck_info.deck_size
    /\ deck_info' = [deck_info EXCEPT !.deck_size = n]
    /\ UNCHANGED <<digits_of_precision, objects, func, last>>

\* requirement.out_of = n, for the i-th object handed to the builder
SetOutOf(i, n) ==
    /\ i \in 1..Len(objects)
    /\ n # objects[i].out_of
    /\ objects' = [objects EXCEPT ![i].out_of = n]
    /\ UNCHANGED <<deck_info, digits_of_precision, func, last>>

Mutate ==
    \/ \E d \in Precisions : SetDigitsOfPrecision(d)
    \/ \E n \in 1..MaxDeck : SetDeckSize(n)
    \/ \E i \in 1..MaxReqs, n \in 0..MaxCategory : SetOutOf(i, n)

\* The engine of plot_generator.main (no rounding) on the largest deck.
MutInit == Init /\ digits_of_precision = None /\ deck_info.deck_size = MaxDeck

\* Nothing was changed since the function was built.
AsBuilt ==
    /\ digits_of_precision = None
    /\ deck_info.deck_size = MaxDeck
    /\ \A i \in 1..Len(func.card_requirements) :
          func.ranges[i].stop = objects[func.card_requirements[i]].out_of + 1

\* A caller that calls the function, makes one change, and calls it again.
MutNext ==
    \/ Next
    \/ last.op = "call" /\ AsBuilt /\ Mutate
    \/ last.op = "call" /\ \E m \in DrawSizes(deck_info) : Call(m)

MutSpec == MutInit /\ [][MutNext]_vars

\* ------------------------------------------------------------ properties
\* The requirements of the function, in the order they were given.
Requirements == [i \in 1..Len(func.card_requirements) |-> objects[func.card_requirements[i]]]

Called == last.op = "call" /\ last.raised = "no"

\* Comparison of two floats <<num, den>>.
Leq(x, y) == x[1] * y[2] <= y[1] * x[2]

\* The deck as cards 1 .. deck_size, the i-th requirement's category being
\* the out_of cards that follow the categories before it.
CategoryCards(i) ==
    LET before == Sum([j \in 1..(i - 1) |-> Requirements[j].out_of])
    IN  (before + 1)..(before + Requirements[i].out_of)

Hands(m) == {h \in SUBSET (1..deck_info.deck_size) : Cardinality(h) = m}

SatisfyingHands(m) ==
    {h \in Hands(m) : \A i \in 1..Len(Requirements) :
                         Cardinality(h \cap CategoryCards(i)) >= Requirements[i].at_least}

\* C1: when the categories fit in the deck, the unrounded value returned at
\* a valid draw size m is the number of m-card hands that hold at least
\* at_least_i cards of every category i, divided by the number of m-card hands.
C1_ExactProbability ==
    (Called /\ digits_of_precision = None
        /\ func.total_cards_checked <= deck_info.deck_size)
    => LET m == last.selected_cards_count
       IN  last.value[1][1] * Cardinality(Hands(m))
               = Cardinality(SatisfyingHands(m)) * last.value[1][2]

C1_Witness ==
    /\ Called /\ digits_of_precision = None
    /\ Len(Requirements) = 2
    /\ \A i \in 1..2 : Requirements[i].at_least >= 1
                       /\ Requirements[i].out_of > Requirements[i].at_least
    /\ func.total_cards_checked <= deck_info.deck_size
    /\ last.value[1][1] > 0 /\ last.value[1][1] < last.value[1][2]

\* C2: a call with a draw size below 0 or above deck_size raises ValueError
\* and returns nothing; a call with a draw size in 0 .. deck_size raises
\* nothing (no draw-size error, no division by zero) and returns one value.
C2_DrawSizeChecked ==
    last.op = "call"
    => IF last.selected_cards_count < 0
          \/ last.selected_cards_count > deck_info.deck_size
       THEN last.raised = "ValueError" /\ last.value = <<>>
       ELSE last.raised = "no" /\ Len(last.value) = 1

C2_Witness ==
    /\ last.op = "call"
    /\ last.selected_cards_count = deck_info.deck_size + 1
    /\ last.raised = "ValueError"
    /\ Len(Requirements) = 0
    /\ digits_of_precision # None

\* C3: a builder call given a malformed requirement raises ValueError and
\* returns no function, and every function that was returned was built from
\* well-formed requirements only.
C3_MalformedRejected ==
    /\ (last.op = "build" /\ last.malformed)
           => (last.raised = "ValueError" /\ func = NoFunc)
    /\ func # NoFunc
           => \A i \in 1..Len(objects) :
                 0 <= objects[i].at_least /\ objects[i].at_least <= objects[i].out_of

C3_Witness ==
    /\ last.op = "build" /\ last.by = "ranks"
    /\ last.malformed /\ last.raised = "ValueError"
    /\ func = NoFunc

\* C4: every value a function returns at a valid draw size lies in [0, 1],
\* and the summed numerator lies in 0 .. choose(deck_size, m), also when the
\* categories' totals exceed the deck.
C4_InUnitInterval ==
    /\ (last.op \in {"call", "list"} /\ last.raised = "no")
           => \A i \in 1..Len(last.value) :
                 /\ last.value[i][2] > 0
                 /\ 0 <= last.value[i][1]
                 /\ last.value[i][1] <= last.value[i][2]
    /\ Called
           => LET n == Numerator(func, objects, deck_info, last.selected_cards_count)
              IN  0 <= n /\ n <= comb(deck_info.deck_size, last.selected_cards_count)

C4_Witness ==
    /\ Called
    /\ func.total_cards_checked > deck_info.deck_size
    /\ Len(Requirements) = 2
    /\ last.selected_cards_count > 0

\* C5: two calls of a function at the same draw size return the same, whatever
\* the caller changed between them.
C5_SameResultAtSameDrawSize ==
    [][(last.op = "call" /\ last'.op = "call"
            /\ last'.selected_cards_count = last.selected_cards_count)
         => last' = last]_vars

\* C6: for a function built from one requirement and not rounded, the values
\* at consecutive draw sizes never decrease.
C6_MonotoneInDrawSize ==
    (last.op = "list" /\ digits_of_precision = None /\ Len(Requirements) = 1)
    => \A i \in 1..(Len(last.value) - 1) : Leq(last.value[i], last.value[i + 1])

C6_Witness ==
    /\ last.op = "list" /\ digits_of_precision = None /\ Len(Requirements) = 1
    /\ last.selected_cards_count = 0
    /\ Requirements[1].at_least = 2
    /\ Len(last.value) >= 4
    /\ \E i \in 1..(Len(last.value) - 1) : ~Leq(last.value[i + 1], last.value[i])

WholeCategoryWholeDeck ==
    /\ Called
    /\ Len(Requirements) = 1
    /\ Requirements[1].at_least = Requirements[1].out_of
    /\ last.selected_cards_count = deck_info.deck_size

\* C7 as stated: 'at least n out of n' gives exactly 1 at m = deck_size, for
\* every n and every deck.
C7_WholeDeckGivesOne_AnyCategory ==
    WholeCategoryWholeDeck => last.value = << <<1, 1>> >>

\* C7, amended: 'at least n out of n' gives exactly 1 at m = deck_size, for
\* every n that is at most deck_size.
C7_WholeDeckGivesOne ==
    (WholeCategoryWholeDeck /\ Requirements[1].out_of <= deck_info.deck_size)
    => last.value = << <<1, 1>> >>

C7_Witness ==
    /\ WholeCategoryWholeDeck
    /\ Requirements[1].out_of = 2
    /\ deck_info.deck_size > 2
    /\ last.value = << <<1, 1>> >>

\* C8: a function with a requirement of at_least >= 1 returns exactly 0 at
\* draw size 0.
C8_ZeroAtDrawSizeZero ==
    (last.op = "call" /\ last.selected_cards_count = 0
        /\ \E i \in 1..Len(Requirements) : Requirements[i].at_least >= 1)
    => (last.raised = "no" /\ last.value = << <<0, 1>> >>)

C8_Witness ==
    /\ Called /\ last.selected_cards_count = 0
    /\ Len(Requirements) = 2
    /\ Requirements[1].at_least = 0 /\ Requirements[2].at_least = 1
    /\ func.total_cards_checked < deck_info.deck_size
    /\ last.value = << <<0, 1>> >>

\* C9: a function built from no requirement returns exactly 1 at every valid
\* draw size, whichever builder built it.
C9_EmptyGivesOne ==
    (last.op = "call" /\ Len(func.card_requirements) = 0
        /\ 0 <= last.selected_cards_count
        /\ last.selected_cards_count <= deck_info.deck_size)
    => (last.raised = "no" /\ last.value = << <<1, 1>> >>)

C9_Witness ==
    /\ Called /\ func.built_by = "unique" /\ func.given = <<0>>
    /\ last.selected_cards_count = 2
    /\ deck_info.deck_size = 4
    /\ digits_of_precision = <<1>>
    /\ last.value = << <<1, 1>> >>

\* What create_probability_func, given the requirements `reqs` as new
\* objects, returns at the draw size of the last call.
ByCreate(reqs) ==
    ProbabilityFunc(Closure("create", <<>>, [i \in 1..Len(reqs) |-> i], reqs),
                    reqs, deck_info, digits_of_precision, last.selected_cards_count)

\* The deck of main(), and what a builder's function returns on it, unrounded,
\* at draw size m: `args` are the requirements the builder constructs and
\* `refs` its references to them.
Deck24 == [deck_size |-> 24, cards_of_rank_count |-> 4, cards_of_suit_count |-> 6]

OnDeck24(args, refs, m) ==
    LET objs == AsObjects(Construct(args))
    IN  ProbabilityFunc(Closure("builder", <<>>, refs, objs), objs, Deck24, None, m).value

\* C10: a function built by a convenience builder returns what the function
\* create_probability_func builds from the requirements (k_i, cards_of_rank_count),
\* (k_i, cards_of_suit_count) or N times (1, 1) returns, and unrounded the
\* unique-cards value is choose(D - N, m - N) / choose(D, m); on the 24-card
\* deck unique_cards(2) gives 1/276 and ranks(2) gives 6/276 at m = 2.
C10_BuildersAreAdapters ==
    /\ OnDeck24(<< <<1, 1>> >>, UniqueRefs(2), 2) = <<1, 276>>
    /\ OnDeck24(RanksArgs(Deck24, <<2>>), <<1>>, 2) = <<1, 46>>
    /\ Called =>
        LET m == last.selected_cards_count
            D == deck_info.deck_size
            k == func.given
        IN  /\ func.built_by = "ranks"
               => last.value[1] = ByCreate([i \in 1..Len(k) |->
                      [at_least |-> k[i], out_of |-> deck_info.cards_of_rank_count]]).value
            /\ func.built_by = "suits"
               => last.value[1] = ByCreate([i \in 1..Len(k) |->
                      [at_least |-> k[i], out_of |-> deck_info.cards_of_suit_count]]).value
            /\ func.built_by = "unique"
               => /\ last.value[1] = ByCreate([i \in 1..k[1] |->
                         [at_least |-> 1, out_of |-> 1]]).value
                  /\ digits_of_precision = None
                     => last.value[1][1] * comb(D, m)
                            = KFromNCombinations(D - k[1], m - k[1]) * last.value[1][2]

C10_Witness ==
    /\ Called /\ func.built_by = "ranks"
    /\ func.given = <<2, 1>>
    /\ deck_info.cards_of_rank_count = 2 /\ deck_info.cards_of_suit_count = 1
    /\ deck_info.deck_size = 4
    /\ last.selected_cards_count = 3
    /\ last.value = << <<1, 2>> >>

====
